---- MODULE Spec2Model ----
(***************************************************************************)
(* Model of stagecoach-tracker (src/src/main.rs): a sequential poll loop   *)
(* that fetches vehicle positions, matches each vehicle against the        *)
(* waypoints loaded at startup and sends one notification per match.       *)
(*                                                                         *)
(* Text is modelled as a sequence of one-character strings, so that the    *)
(* splitting, trimming and number parsing of the program are computed.     *)
(* Coordinates are whole numbers of metres of arc measured from a point on *)
(* the equator; over the few hundred metres the model spans the haversine  *)
(* distance agrees with the planar distance, and it is kept in whole       *)
(* metres rounded up, which decides `distance <= 200.0` as the real value  *)
(* does.  Time is in seconds.                                              *)
(***************************************************************************)
EXTENDS Integers, Sequences, FiniteSets, TLC

VARIABLES
    env,          \* the process environment after dotenv(): variable -> Option<text>
    pc,           \* position of the single thread of control
    bus_stops,    \* main's bus_stops, the result of load_bus_stops()
    clock,        \* start_time.elapsed(), in seconds
    response,     \* check_buses' decoded response (Option<Value>)
    idx,          \* position of `for service in services`
    message,      \* the message of the send in progress (Option)
    matched,      \* indices of the services passed to find_nearest_stop this cycle
    notes,        \* notification requests issued this cycle, in order, with outcome
    requests,     \* tracking requests issued this cycle
    outcome,      \* how the last started cycle ended
    logged,       \* main printed "Error checking buses" for the last started cycle
    bus,          \* arguments bus_lat, bus_lng of the last find_nearest_stop call
    nearby_stop   \* result of the last find_nearest_stop call (Option<String>)

vars == <<env, pc, bus_stops, clock, response, idx, message, matched, notes,
          requests, outcome, logged, bus, nearby_stop>>

-----------------------------------------------------------------------------
(* Bounds of the model.                                                    *)

MaxServices == 2     \* longest `services` array of a response
MaxServicesTimed == 1   \* the same, in the runs that check termination
MaxStops == 2        \* longest waypoint list given to the matcher alone
MaxRecords == 2      \* most `;`-separated records in a generated BUS_STOPS
MaxFields == 4       \* most `,`-separated fields in a generated record

-----------------------------------------------------------------------------
(* Option<T>: None is the empty sequence, Some(x) the one-element one.     *)

None == <<>>
Some(x) == <<x>>
IsSome(o) == o # <<>>
Unwrap(o) == o[1]

-----------------------------------------------------------------------------
(* Text: str::split, str::trim, str::parse.                                *)

Digits == {"0", "1", "2", "3", "4", "5", "6", "7", "8", "9"}

DigitVal(c) ==
    CASE c = "0" -> 0 [] c = "1" -> 1 [] c = "2" -> 2 [] c = "3" -> 3
      [] c = "4" -> 4 [] c = "5" -> 5 [] c = "6" -> 6 [] c = "7" -> 7
      [] c = "8" -> 8 [] c = "9" -> 9

\* s.split(sep): the pieces between the occurrences of sep, at least one.
split(s, sep) ==
    LET cuts == {i \in 1..Len(s) : s[i] = sep}
        n == Cardinality(cuts) + 1
        Cut(k) == CHOOSE i \in cuts : Cardinality({j \in cuts : j < i}) = k - 1
    IN  [k \in 1..n |->
            SubSeq(s, IF k = 1 THEN 1 ELSE Cut(k - 1) + 1,
                      IF k = n THEN Len(s) ELSE Cut(k) - 1)]

\* x.trim(): from the first to the last character that is not white space.
trim(s) ==
    LET inked == {i \in 1..Len(s) : s[i] # " "}
    IN  IF inked = {} THEN <<>>
        ELSE SubSeq(s, CHOOSE i \in inked : \A j \in inked : i <= j,
                       CHOOSE i \in inked : \A j \in inked : i >= j)

\* The value of a text of decimal digits.
DecimalValue(s) ==
    LET value[n \in 0..Len(s)] ==
            IF n = 0 THEN 0 ELSE 10 * value[n - 1] + DigitVal(s[n])
    IN  value[Len(s)]

\* s.parse::<f64>().ok() (and parse::<u32>), on unsigned decimal numerals: the
\* empty text and any text holding a blank or a letter do not parse.
parse(s) ==
    IF s # <<>> /\ \A i \in 1..Len(s) : s[i] \in Digits
    THEN Some(DecimalValue(s))
    ELSE None

-----------------------------------------------------------------------------
(* Waypoint loader.                                                        *)

BusStop(name, lat, lng) == [name |-> name, lat |-> lat, lng |-> lng]

\* The filter_map closure of load_bus_stops: the first three `,`-separated
\* parts, trimmed; Some(stop) when the second and third parse as numbers.
stop_of_record(s) ==
    LET parts == split(s, ",")
    IN  IF Len(parts) >= 3
        THEN LET name == trim(parts[1])
                 lat  == parse(trim(parts[2]))
                 lng  == parse(trim(parts[3]))
             IN  IF IsSome(lat) /\ IsSome(lng)
                 THEN Some(BusStop(name, Unwrap(lat), Unwrap(lng)))
                 ELSE None
        ELSE None

RECURSIVE filter_map_stops(_)
filter_map_stops(records) ==
    IF records = <<>> THEN <<>>
    ELSE stop_of_record(Head(records)) \o filter_map_stops(Tail(records))

\* load_bus_stops(), given env::var("BUS_STOPS").
load_bus_stops(stops_var) ==
    IF ~IsSome(stops_var)
    THEN <<>>
    ELSE filter_map_stops(split(Unwrap(stops_var), ";"))

-----------------------------------------------------------------------------
(* Proximity matcher.                                                      *)

MAX_DISTANCE_METERS == 200

\* The least d in lo..hi with d * d >= n, by bisection; r is <<n, lo, hi>>.
CeilSqrtIn[r \in Nat \X Nat \X Nat] ==
    IF r[2] >= r[3] THEN r[2]
    ELSE LET mid == (r[2] + r[3]) \div 2
         IN  IF mid * mid >= r[1] THEN CeilSqrtIn[<<r[1], r[2], mid>>]
                                  ELSE CeilSqrtIn[<<r[1], mid + 1, r[3]>>]

\* haversine_distance, in whole metres rounded up.
haversine_distance(lat1, lon1, lat2, lon2) ==
    LET delta_lat == lat2 - lat1
        delta_lon == lon2 - lon1
        a == delta_lat * delta_lat + delta_lon * delta_lon
        Abs(x) == IF x < 0 THEN -x ELSE x
    IN  CeilSqrtIn[<<a, 0, Abs(delta_lat) + Abs(delta_lon)>>]

\* find_nearest_stop with the threshold taken as exclusive (`<` for `<=`).
RECURSIVE find_nearest_stop_exclusive(_, _, _)
find_nearest_stop_exclusive(bus_lat, bus_lng, stops) ==
    IF stops = <<>> THEN None
    ELSE LET stop == Head(stops)
             distance == haversine_distance(bus_lat, bus_lng, stop.lat, stop.lng)
         IN  IF distance < MAX_DISTANCE_METERS
             THEN Some(stop.name)
             ELSE find_nearest_stop_exclusive(bus_lat, bus_lng, Tail(stops))

\* find_nearest_stop with the loop left after its first waypoint.
find_nearest_stop_first_only(bus_lat, bus_lng, stops) ==
    IF stops = <<>> THEN None
    ELSE LET stop == Head(stops)
             distance == haversine_distance(bus_lat, bus_lng, stop.lat, stop.lng)
         IN  IF distance <= MAX_DISTANCE_METERS THEN Some(stop.name) ELSE None

\* find_nearest_stop: the loop over bus_stops, returning at the first stop
\* within MAX_DISTANCE_METERS.
RECURSIVE find_nearest_stop(_, _, _)
find_nearest_stop(bus_lat, bus_lng, stops) ==
    IF stops = <<>> THEN None
    ELSE LET stop == Head(stops)
             distance == haversine_distance(bus_lat, bus_lng, stop.lat, stop.lng)
         IN  IF distance <= MAX_DISTANCE_METERS
             THEN Some(stop.name)
             ELSE find_nearest_stop(bus_lat, bus_lng, Tail(stops))

-----------------------------------------------------------------------------
(* serde_json::Value: null, string, number, array, object.                 *)

Null == [t |-> "null"]
Str(s) == [t |-> "string", v |-> s]
Num(n) == [t |-> "number", v |-> n]
Arr(items) == [t |-> "array", v |-> items]
Obj(fields) == [t |-> "object", v |-> fields]

\* value[key]: Null unless value is an object holding key.
Index(value, key) ==
    IF value.t = "object" /\ key \in DOMAIN value.v THEN value.v[key] ELSE Null

as_str(value) == IF value.t = "string" THEN Some(value.v) ELSE None
as_array(value) == IF value.t = "array" THEN Some(value.v) ELSE None

\* service[field].as_str().and_then(|s| s.parse::<f64>().ok())
coordinate(service, field) ==
    LET s == as_str(Index(service, field))
    IN  IF IsSome(s) THEN parse(Unwrap(s)) ELSE None

\* service[field].as_str().unwrap_or(default)
text_or(service, field, default) ==
    LET s == as_str(Index(service, field))
    IN  IF IsSome(s) THEN Unwrap(s) ELSE default

\* The message check_buses formats for a match.
Message(service, stop_name) ==
    [service_number      |-> text_or(service, "serviceNumber", "Unknown"),
     service_description |-> text_or(service, "serviceDescription", "No description"),
     stop                |-> stop_name]

-----------------------------------------------------------------------------
(* Inputs: environments and tracking responses.                            *)

RECURSIVE Join(_, _)
Join(pieces, sep) ==
    IF pieces = <<>> THEN <<>>
    ELSE IF Len(pieces) = 1 THEN pieces[1]
    ELSE pieces[1] \o <<sep>> \o Join(Tail(pieces), sep)

\* "A,0,0;BadRecord; B , 120 ,160": two waypoints 200 m apart around a
\* malformed record.
StopsText ==
    Join(<<Join(<<<<"A">>, <<"0">>, <<"0">>>>, ","),
           <<"B", "a", "d">>,
           Join(<<<<" ", "B", " ">>, <<" ", "1", "2", "0", " ">>, <<"1", "6", "0">>>>, ",")>>,
         ";")

BaseEnv ==
    [LAT                |-> Some(<<"5">>),
     LNG                |-> Some(<<"7">>),
     RADIUS             |-> Some(<<"9">>),
     TELEGRAM_BOT_TOKEN |-> Some(<<"t">>),
     TELEGRAM_CHAT_ID   |-> Some(<<"c">>),
     BUS_STOPS          |-> Some(StopsText)]

\* The complete environment, and each environment with one setting absent
\* or (for the numeric ones) unparseable.
Environments ==
    {BaseEnv}
    \cup {[BaseEnv EXCEPT ![k] = None] : k \in DOMAIN BaseEnv}
    \cup {[BaseEnv EXCEPT ![k] = Some(<<"x">>)] : k \in {"LAT", "LNG", "RADIUS"}}

Vehicle(number, lat, lng) ==
    Obj([serviceNumber |-> Str(number), serviceDescription |-> Str("X"),
         latitude |-> lat, longitude |-> lng])

\* Vehicles at A, next to B, out of range, and with a latitude or longitude
\* that is unparseable, not a string, or missing.
Services ==
    {Vehicle("1", Str(<<"0">>), Str(<<"0">>)),
     Vehicle("2", Str(<<"1", "2", "0">>), Str(<<"1", "6", "1">>)),
     Vehicle("3", Str(<<"4", "0", "0">>), Str(<<"0">>)),
     Vehicle("4", Str(<<"x">>), Str(<<"0">>)),
     Vehicle("5", Str(<<"0">>), Num(0)),
     Obj([serviceNumber |-> Str("6"), longitude |-> Str(<<"0">>)])}

ServiceLists == UNION {[1..n -> Services] : n \in 0..MaxServices}

\* Decoded responses: an object whose `services` is an array, is absent or
\* is not an array, and a document that is no object.
Responses ==
    {Obj([services |-> Arr(l)]) : l \in ServiceLists}
    \cup {Obj(<<>>), Obj([services |-> Str("none")]), Null}

-----------------------------------------------------------------------------
(* The program: main's loop, check_buses and send_telegram_message.        *)

SCRIPT_TIMEOUT == 30 * 60
SLEEP_SECS == 10

\* Seconds a network call may take before it returns.
NetworkDelays == {0, 10}

\* start_time.elapsed() after d more seconds; past SCRIPT_TIMEOUT only
\* `elapsed >= SCRIPT_TIMEOUT` is read, so the clock stops there.
Elapse(d) == IF clock + d >= SCRIPT_TIMEOUT THEN SCRIPT_TIMEOUT ELSE clock + d

Locals == <<response, idx, message, matched, notes, bus, nearby_stop>>

NoLocals ==
    /\ response = None
    /\ idx = 0
    /\ message = None
    /\ matched = <<>>
    /\ notes = <<>>
    /\ bus = None
    /\ nearby_stop = None

\* main, lines 21-25: load the waypoints, start the clock.
Startup ==
    /\ pc = "start"
    /\ bus_stops' = load_bus_stops(env.BUS_STOPS)
    /\ clock' = 0
    /\ pc' = "top"
    /\ UNCHANGED <<env, Locals, requests, outcome, logged>>

\* The state in which main enters its loop: the waypoints loaded from the
\* environment, the clock started.
Init ==
    /\ env \in Environments
    /\ pc = "top"
    /\ bus_stops = load_bus_stops(env.BUS_STOPS)
    /\ clock = 0
    /\ NoLocals
    /\ requests = 0
    /\ outcome = "none"
    /\ logged = FALSE

\* main, lines 29-32: the elapsed-time check at the top of the loop, taken.
LoopExit ==
    /\ pc = "top"
    /\ clock >= SCRIPT_TIMEOUT
    /\ pc' = "exited"
    /\ UNCHANGED <<env, bus_stops, clock, Locals, requests, outcome, logged>>

\* BeginCycle without the elapsed-time check before it.
BeginCycle_unchecked ==
    /\ pc = "top"
    /\ pc' = "check"
    /\ requests' = 0
    /\ outcome' = "running"
    /\ logged' = FALSE
    /\ UNCHANGED <<env, bus_stops, clock, Locals>>

\* main, lines 29-37: the check not taken; check_buses is called.
BeginCycle ==
    /\ pc = "top"
    /\ ~(clock >= SCRIPT_TIMEOUT)
    /\ pc' = "check"
    /\ requests' = 0
    /\ outcome' = "running"
    /\ logged' = FALSE
    /\ UNCHANGED <<env, bus_stops, clock, Locals>>

\* The three settings check_buses reads with expect(...).parse().expect(...).
SettingOk(name) == IsSome(env[name]) /\ IsSome(parse(Unwrap(env[name])))

\* check_buses, lines 98-120: read LAT, LNG, RADIUS (panic on a missing or
\* unparseable one), then issue the tracking request.
ReadConfig ==
    /\ pc = "check"
    /\ IF SettingOk("LAT") /\ SettingOk("LNG") /\ SettingOk("RADIUS")
       THEN /\ requests' = requests + 1
            /\ pc' = "fetch"
            /\ UNCHANGED outcome
       ELSE /\ pc' = "panicked"
            /\ outcome' = "panic"
            /\ UNCHANGED requests
    /\ UNCHANGED <<env, bus_stops, clock, Locals, logged>>

\* FetchFails with the error ending main instead of being logged.
FetchFails_exit ==
    /\ pc = "fetch"
    /\ \E kind \in {"transport", "decode"}, d \in NetworkDelays :
          /\ outcome' = kind
          /\ clock' = Elapse(d)
    /\ pc' = "exited"
    /\ UNCHANGED <<env, bus_stops, Locals, requests, logged>>

\* check_buses, line 120, and main, lines 37-39: send() or json() fails, the
\* error returns through `?` and main logs it.
FetchFails ==
    /\ pc = "fetch"
    /\ \E kind \in {"transport", "decode"}, d \in NetworkDelays :
          /\ outcome' = kind
          /\ clock' = Elapse(d)
    /\ logged' = TRUE
    /\ pc' = "sleep"
    /\ UNCHANGED <<env, bus_stops, Locals, requests>>

\* check_buses, line 120: the response is decoded; its `services`, when an
\* array, holds at most n entries.
FetchDecodedUpTo(n) ==
    /\ pc = "fetch"
    /\ \E r \in Responses, d \in NetworkDelays :
          /\ IsSome(as_array(Index(r, "services")))
                => Len(Unwrap(as_array(Index(r, "services")))) <= n
          /\ response' = Some(r)
          /\ clock' = Elapse(d)
    /\ idx' = 1
    /\ pc' = "services"
    /\ UNCHANGED <<env, bus_stops, message, matched, notes, bus, nearby_stop,
                   requests, outcome, logged>>

FetchDecoded == FetchDecodedUpTo(MaxServices)

FetchDecodedBrief == FetchDecodedUpTo(MaxServicesTimed)

services == as_array(Index(Unwrap(response), "services"))

\* NoServices with the missing array reported as a decode error.
NoServices_error ==
    /\ pc = "services"
    /\ ~IsSome(services)
    /\ outcome' = "decode"
    /\ logged' = TRUE
    /\ pc' = "sleep"
    /\ UNCHANGED <<env, bus_stops, clock, Locals, requests>>

\* check_buses, lines 122, 149-154: `services` is no array; Ok(()).
NoServices ==
    /\ pc = "services"
    /\ ~IsSome(services)
    /\ outcome' = "ok"
    /\ pc' = "sleep"
    /\ UNCHANGED <<env, bus_stops, clock, Locals, requests, logged>>

\* check_buses, lines 123, 154: the loop over services is over; Ok(()).
EndOfServices ==
    /\ pc = "services"
    /\ IsSome(services)
    /\ idx > Len(Unwrap(services))
    /\ outcome' = "ok"
    /\ pc' = "sleep"
    /\ UNCHANGED <<env, bus_stops, clock, Locals, requests, logged>>

HasCoordinates(service) ==
    IsSome(coordinate(service, "latitude")) /\ IsSome(coordinate(service, "longitude"))

\* SkipService with the loop left at the first entry without coordinates.
SkipService_break ==
    /\ pc = "services"
    /\ IsSome(services)
    /\ idx <= Len(Unwrap(services))
    /\ ~HasCoordinates(Unwrap(services)[idx])
    /\ idx' = Len(Unwrap(services)) + 1
    /\ UNCHANGED <<env, pc, bus_stops, clock, response, message, matched, notes,
                   bus, nearby_stop, requests, outcome, logged>>

\* check_buses, lines 124-127, 147: an entry without both coordinates is
\* passed over.
SkipService ==
    /\ pc = "services"
    /\ IsSome(services)
    /\ idx <= Len(Unwrap(services))
    /\ ~HasCoordinates(Unwrap(services)[idx])
    /\ idx' = idx + 1
    /\ UNCHANGED <<env, pc, bus_stops, clock, response, message, matched, notes,
                   bus, nearby_stop, requests, outcome, logged>>

\* check_buses, lines 124-141: an entry with coordinates goes to the matcher;
\* on a match send_telegram_message is called with the message.
MatchService ==
    /\ pc = "services"
    /\ IsSome(services)
    /\ idx <= Len(Unwrap(services))
    /\ \E service \in {Unwrap(services)[idx]} :
          /\ HasCoordinates(service)
          /\ \E bus_lat \in {Unwrap(coordinate(service, "latitude"))},
                bus_lng \in {Unwrap(coordinate(service, "longitude"))} :
                \E found \in {find_nearest_stop(bus_lat, bus_lng, bus_stops)} :
                   /\ bus' = Some([lat |-> bus_lat, lng |-> bus_lng])
                   /\ nearby_stop' = found
                   /\ matched' = Append(matched, idx)
                   /\ IF IsSome(found)
                      THEN /\ message' = Some(Message(service, Unwrap(found)))
                           /\ pc' = "notify"
                           /\ UNCHANGED idx
                      ELSE /\ idx' = idx + 1
                           /\ UNCHANGED <<message, pc>>
    /\ UNCHANGED <<env, bus_stops, clock, response, notes, requests, outcome, logged>>

\* ReadCredentials with a missing credential read as the empty text.
ReadCredentials_default ==
    /\ pc = "notify"
    /\ notes' = Append(notes, Unwrap(message))
    /\ pc' = "send"
    /\ UNCHANGED <<env, bus_stops, clock, response, idx, message, matched, bus,
                   nearby_stop, requests, outcome, logged>>

\* send_telegram_message, lines 202-211: read the credentials (panic on a
\* missing one), then issue the notification request.
ReadCredentials ==
    /\ pc = "notify"
    /\ IF IsSome(env.TELEGRAM_BOT_TOKEN) /\ IsSome(env.TELEGRAM_CHAT_ID)
       THEN /\ notes' = Append(notes, Unwrap(message))
            /\ pc' = "send"
            /\ UNCHANGED outcome
       ELSE /\ pc' = "panicked"
            /\ outcome' = "panic"
            /\ UNCHANGED notes
    /\ UNCHANGED <<env, bus_stops, clock, response, idx, message, matched, bus,
                   nearby_stop, requests, logged>>

\* send_telegram_message, lines 211-213, and check_buses, line 141: the
\* request returns a response (of any status); the loop goes on.
SendReturns ==
    /\ pc = "send"
    /\ \E d \in NetworkDelays : clock' = Elapse(d)
    /\ message' = None
    /\ idx' = idx + 1
    /\ pc' = "services"
    /\ UNCHANGED <<env, bus_stops, response, matched, notes, bus, nearby_stop,
                   requests, outcome, logged>>

\* send_telegram_message, line 211, check_buses, line 141, and main, lines
\* 37-39: the request fails, the error returns through both `?` and main
\* logs it.
SendFails ==
    /\ pc = "send"
    /\ \E d \in NetworkDelays : clock' = Elapse(d)
    /\ outcome' = "send"
    /\ logged' = TRUE
    /\ pc' = "sleep"
    /\ UNCHANGED <<env, bus_stops, Locals, requests>>

\* main, line 41: sleep, then back to the top of the loop; check_buses'
\* locals are gone.
Sleep ==
    /\ pc = "sleep"
    /\ clock' = Elapse(SLEEP_SECS)
    /\ pc' = "top"
    /\ response' = None
    /\ idx' = 0
    /\ message' = None
    /\ matched' = <<>>
    /\ notes' = <<>>
    /\ bus' = None
    /\ nearby_stop' = None
    /\ requests' = 0
    /\ UNCHANGED <<env, bus_stops, outcome, logged>>

Next ==
    \/ LoopExit
    \/ BeginCycle
    \/ ReadConfig
    \/ FetchFails
    \/ FetchDecoded
    \/ NoServices
    \/ EndOfServices
    \/ SkipService
    \/ MatchService
    \/ ReadCredentials
    \/ SendReturns
    \/ SendFails
    \/ Sleep

Spec == Init /\ [][Next]_vars

-----------------------------------------------------------------------------
(* The matcher alone: find_nearest_stop applied to every vehicle position  *)
(* and every waypoint list of up to MaxStops waypoints over a grid that    *)
(* holds distances of 0, 120, 160, 200 and 201 metres.                     *)

GridLats == {0, 120}
GridLngs == {0, 160, 201}
GridStops ==
    {BusStop(n, lat, lng) : n \in {<<"A">>, <<"B">>}, lat \in GridLats, lng \in GridLngs}
StopLists == UNION {[1..n -> GridStops] : n \in 0..MaxStops}

InitMatch ==
    /\ env = BaseEnv
    /\ pc = "match"
    /\ bus_stops \in StopLists
    /\ bus \in {Some([lat |-> lat, lng |-> lng]) : lat \in GridLats, lng \in GridLngs}
    /\ nearby_stop = None
    /\ clock = 0
    /\ response = None
    /\ idx = 0
    /\ message = None
    /\ matched = <<>>
    /\ notes = <<>>
    /\ requests = 0
    /\ outcome = "none"
    /\ logged = FALSE

\* One call find_nearest_stop(bus_lat, bus_lng, &bus_stops).
Match ==
    /\ pc = "match"
    /\ nearby_stop' = find_nearest_stop(Unwrap(bus).lat, Unwrap(bus).lng, bus_stops)
    /\ pc' = "matched"
    /\ UNCHANGED <<env, bus_stops, clock, response, idx, message, matched, notes,
                   requests, outcome, logged, bus>>

SpecMatch == InitMatch /\ [][Match]_vars

\* Squared distance in metres between a position and a waypoint.
SquaredDistance(lat, lng, stop) ==
    (stop.lat - lat) * (stop.lat - lat) + (stop.lng - lng) * (stop.lng - lng)

\* Indices of the waypoints of `stops` within 200 m of the position.
InRange(lat, lng, stops) ==
    {i \in 1..Len(stops) : SquaredDistance(lat, lng, stops[i]) <= 200 * 200}

Least(S) == CHOOSE i \in S : \A j \in S : i <= j

StandsOn(i) ==
    bus_stops[i].lat = Unwrap(bus).lat /\ bus_stops[i].lng = Unwrap(bus).lng

-----------------------------------------------------------------------------
(* The loader alone: load_bus_stops applied to every BUS_STOPS text of up  *)
(* to MaxRecords records of up to MaxFields fields, and to the absent      *)
(* variable.                                                               *)

FieldTexts == {<<"A">>, <<" ", "7", " ">>, <<>>}
RecordTexts == {Join(f, ",") : f \in UNION {[1..n -> FieldTexts] : n \in 1..MaxFields}}
StopsTexts == {Join(r, ";") : r \in UNION {[1..n -> RecordTexts] : n \in 1..MaxRecords}}

InitLoad ==
    /\ \E v \in {None} \cup {Some(t) : t \in StopsTexts} :
          env = [BaseEnv EXCEPT !["BUS_STOPS"] = v]
    /\ pc = "start"
    /\ bus_stops = <<>>
    /\ clock = 0
    /\ NoLocals
    /\ requests = 0
    /\ outcome = "none"
    /\ logged = FALSE

SpecLoad == InitLoad /\ [][Startup]_vars

\* The text up to the first sep, and the rest after it, piece by piece.
RECURSIVE Pieces(_, _)
Pieces(s, sep) ==
    IF \A i \in 1..Len(s) : s[i] # sep
    THEN <<s>>
    ELSE LET i == CHOOSE k \in 1..Len(s) :
                      s[k] = sep /\ \A j \in 1..(k - 1) : s[j] # sep
         IN  <<SubSeq(s, 1, i - 1)>> \o Pieces(SubSeq(s, i + 1, Len(s)), sep)

\* s without the blanks at its two ends.
RECURSIVE Stripped(_)
Stripped(s) ==
    IF s = <<>> THEN s
    ELSE IF Head(s) = " " THEN Stripped(Tail(s))
    ELSE IF s[Len(s)] = " " THEN Stripped(SubSeq(s, 1, Len(s) - 1))
    ELSE s

\* s is an unsigned numeral, blanks around it allowed.
IsNumeral(s) ==
    Stripped(s) # <<>> /\ \A i \in 1..Len(Stripped(s)) : Stripped(s)[i] \in Digits

WellFormedRecord(r) ==
    LET f == Pieces(r, ",")
    IN  Len(f) = 3 /\ IsNumeral(f[2]) /\ IsNumeral(f[3])

RECURSIVE StopsOfRecords(_)
StopsOfRecords(records) ==
    IF records = <<>> THEN <<>>
    ELSE LET r == Head(records)
             f == Pieces(r, ",")
         IN  (IF WellFormedRecord(r)
              THEN <<BusStop(Stripped(f[1]), DecimalValue(Stripped(f[2])),
                             DecimalValue(Stripped(f[3])))>>
              ELSE <<>>) \o StopsOfRecords(Tail(records))

\* C6: load_bus_stops returns, in input order, exactly the records of exactly
\* three fields with numeric lat and lng, and the empty list when BUS_STOPS
\* is absent or holds no such record.
C6_ExactlyThreeFields ==
    pc = "top" =>
        bus_stops = IF IsSome(env.BUS_STOPS)
                    THEN StopsOfRecords(Pieces(Unwrap(env.BUS_STOPS), ";"))
                    ELSE <<>>

\* The program with short responses, and with every awaited call and every
\* sleep returning: the one thread always takes its next step.
NextTimed ==
    \/ LoopExit
    \/ BeginCycle
    \/ ReadConfig
    \/ FetchFails
    \/ FetchDecodedBrief
    \/ NoServices
    \/ EndOfServices
    \/ SkipService
    \/ MatchService
    \/ ReadCredentials
    \/ SendReturns
    \/ SendFails
    \/ Sleep

SpecFair == Init /\ [][NextTimed]_vars /\ WF_vars(NextTimed)

-----------------------------------------------------------------------------
(* What a cycle is expected to do, stated on the response itself.          *)

\* A response was decoded in the current cycle.
Decoded == IsSome(response)

FetchFailed == outcome \in {"transport", "decode"}

\* The field is present, a string, and an unsigned numeral.
NumericField(service, field) ==
    /\ service.t = "object"
    /\ field \in DOMAIN service.v
    /\ service.v[field].t = "string"
    /\ service.v[field].v # <<>>
    /\ \A i \in 1..Len(service.v[field].v) : service.v[field].v[i] \in Digits

BadEntry(service) ==
    ~NumericField(service, "latitude") \/ ~NumericField(service, "longitude")

GoodEntries(list) ==
    LET Good(e) == ~BadEntry(e) IN SelectSeq(list, Good)

\* The waypoints in range of a good entry.
NearEntry(service, stops) ==
    InRange(DecimalValue(service.v.latitude.v), DecimalValue(service.v.longitude.v), stops)

\* The notifications owed to a list of entries: one per good entry in range of
\* a waypoint, in list order, naming the first waypoint in range.
RECURSIVE ExpectedNotes(_, _)
ExpectedNotes(list, stops) ==
    IF list = <<>> THEN <<>>
    ELSE LET e == Head(list)
         IN  (IF ~BadEntry(e) /\ NearEntry(e, stops) # {}
              THEN <<Message(e, stops[Least(NearEntry(e, stops))].name)>>
              ELSE <<>>) \o ExpectedNotes(Tail(list), stops)

IsPrefix(a, b) == Len(a) <= Len(b) /\ a = SubSeq(b, 1, Len(a))

\* C3: in a cycle whose response holds N vehicles that match a waypoint, N
\* notification requests are issued, one per matching vehicle in response
\* order, also when the send for one of them fails.
C3_OnePerMatchDespiteFailure ==
    (pc = "sleep" /\ Decoded /\ IsSome(services))
        => notes = ExpectedNotes(Unwrap(services), bus_stops)

\* C4: a decoded response whose `services` is absent, not an array or an
\* empty array yields no notification request, and the cycle returns Ok.
C4_NoServicesNoNotes ==
    (Decoded /\ (\/ response[1].t # "object"
                 \/ ~("services" \in DOMAIN response[1].v)
                 \/ response[1].v.services.t # "array"
                 \/ response[1].v.services.v = <<>>))
        => /\ notes = <<>>
           /\ matched = <<>>
           /\ pc \in {"services", "sleep"}
           /\ pc = "sleep" => (outcome = "ok" /\ ~logged)

C4_Witness ==
    /\ pc = "sleep"
    /\ outcome = "ok"
    /\ Decoded
    /\ response[1].t = "object"
    /\ "services" \in DOMAIN response[1].v
    /\ response[1].v.services.t = "string"

\* C5: an entry whose latitude or longitude is missing, not a string or not a
\* number never reaches the matcher nor produces a notification, and the
\* cycle goes as if the entry were not in the response: the good entries
\* before and after it are matched and notified, and the cycle returns Ok
\* when their sends succeed.
C5_BadEntriesSkipped ==
    (Decoded /\ IsSome(services)) =>
        LET all == Unwrap(services)
            owed == ExpectedNotes(GoodEntries(all), bus_stops)
            passed == IF pc = "services" THEN idx - 1 ELSE idx
        IN  /\ \A k \in 1..Len(matched) : ~BadEntry(all[matched[k]])
            /\ \A i \in 1..Len(all) :
                  (i <= passed /\ ~BadEntry(all[i])) => \E k \in 1..Len(matched) : matched[k] = i
            /\ IsPrefix(notes, owed)
            /\ (pc = "sleep" /\ outcome = "ok") => notes = owed
            /\ (pc = "sleep" /\ outcome # "ok") => (outcome = "send" /\ notes # <<>>)

\* A cycle returned Ok with a notification although the response held an
\* entry without coordinates before the notified one.
C5_Witness ==
    /\ pc = "sleep"
    /\ outcome = "ok"
    /\ Decoded
    /\ IsSome(services)
    /\ Len(Unwrap(services)) >= 2
    /\ BadEntry(Unwrap(services)[1])
    /\ ~BadEntry(Unwrap(services)[2])
    /\ Len(notes) = 1

\* C7 as amended: when the tracking request fails (transport or decode), the
\* cycle issues no notification and no second tracking request, the error is
\* logged, the process does not exit because of it, the loop sleeps, and the
\* next iteration starts the next poll unless 30 minutes have elapsed, in
\* which case the process exits.
C7_FetchFailureSkipsCycle ==
    /\ [](FetchFailed =>
             /\ pc \in {"sleep", "top", "exited"}
             /\ notes = <<>>
             /\ logged
             /\ pc = "sleep" => requests = 1
             /\ pc = "exited" => clock >= SCRIPT_TIMEOUT)
    /\ [][(FetchFailed /\ pc = "sleep") => (pc' = "top" /\ clock' = Elapse(10))]_vars
    /\ [][(FetchFailed /\ pc = "top") =>
             pc' = (IF clock >= SCRIPT_TIMEOUT THEN "exited" ELSE "check")]_vars

\* After a failed fetch the loop has slept and is at its top with time left.
C7_Witness ==
    /\ pc = "top"
    /\ outcome = "decode"
    /\ logged
    /\ clock >= 10
    /\ clock < SCRIPT_TIMEOUT

\* C7: when the tracking request fails (transport or decode), the cycle
\* issues no notification and no second tracking request, the error is
\* logged, the process does not exit, the loop sleeps 10 seconds and then
\* starts the next poll cycle.
C7_NextPollAlwaysStarts ==
    /\ [](FetchFailed =>
             /\ notes = <<>>
             /\ logged
             /\ pc = "sleep" => requests = 1)
    /\ [][(FetchFailed /\ pc = "sleep") => (pc' = "top" /\ clock' = Elapse(10))]_vars
    /\ [][(FetchFailed /\ pc = "top") => pc' = "check"]_vars

\* C8: the elapsed-time check is made only at the top of an iteration; the
\* process exits at the first iteration start at which 30 minutes have
\* elapsed, starts no poll at or after it, and so terminates when every call
\* and sleep returns, cleanly when no setting is missing.
C8_ExitsAfterTimeout ==
    /\ [](pc \in {"check", "fetch"} => clock < SCRIPT_TIMEOUT)
    /\ [][(pc = "top" /\ clock >= SCRIPT_TIMEOUT) => pc' = "exited"]_vars
    /\ [][pc' = "exited" => (pc = "top" /\ clock >= SCRIPT_TIMEOUT)]_vars
    /\ <>(pc \in {"exited", "panicked"})
    /\ (env = BaseEnv => <>(pc = "exited"))

\* The process exited although its last cycle ended in a transient error.
C8_Witness ==
    /\ pc = "exited"
    /\ clock >= SCRIPT_TIMEOUT
    /\ outcome \in {"transport", "decode", "send"}

NumericMissing ==
    \E k \in {"LAT", "LNG", "RADIUS"} :
        env[k] = None \/ \E i \in 1..Len(env[k][1]) : env[k][1][i] \notin Digits

CredentialMissing == env.TELEGRAM_BOT_TOKEN = None \/ env.TELEGRAM_CHAT_ID = None

\* C9: with LAT, LNG or RADIUS missing or unparseable the process aborts in
\* its first cycle before any tracking request, and nothing runs after an
\* abort; with the bot token or chat id missing it aborts at the first match
\* without sending, and cycles without a match run normally; the process
\* aborts in no other case.
C9_FatalAtFirstUse ==
    /\ [](NumericMissing =>
             /\ pc \in {"top", "check", "panicked"}
             /\ requests = 0
             /\ clock = 0)
    /\ [][(pc = "check" /\ NumericMissing) => pc' = "panicked"]_vars
    /\ [][pc # "panicked"]_vars
    /\ []((CredentialMissing /\ ~NumericMissing) =>
             /\ notes = <<>>
             /\ pc # "send"
             /\ (pc = "sleep" /\ Decoded) => outcome = "ok"
             /\ (pc = "sleep" /\ Decoded /\ IsSome(services))
                    => ExpectedNotes(Unwrap(services), bus_stops) = <<>>)
    /\ [][(pc = "notify" /\ CredentialMissing) => pc' = "panicked"]_vars
    /\ [](pc = "panicked" =>
             \/ NumericMissing
             \/ CredentialMissing /\ IsSome(nearby_stop) /\ IsSome(message))

\* The process aborted at a match, in a later cycle than the first, for want
\* of a credential.
C9_Witness ==
    /\ pc = "panicked"
    /\ CredentialMissing
    /\ clock >= 10
    /\ IsSome(message)
    /\ notes = <<>>

\* C10: the notification requests of a cycle are those owed to its response
\* and the waypoint list alone: every vehicle the response reports in range
\* of a waypoint gets its notification in that cycle, whatever happened to
\* the other notifications.
C10_EveryInRangeVehicleNotified ==
    (pc = "sleep" /\ Decoded /\ IsSome(services)) =>
        LET all == Unwrap(services)
        IN  /\ \A i \in 1..Len(all) :
                  (~BadEntry(all[i]) /\ NearEntry(all[i], bus_stops) # {})
                      => \E k \in 1..Len(notes) :
                            notes[k] = Message(all[i],
                                bus_stops[Least(NearEntry(all[i], bus_stops))].name)
            /\ Len(notes) = Len(ExpectedNotes(all, bus_stops))

====
